---- MODULE Spec2Model ----
(***************************************************************************)
(* Model of the GLM point-process engine of mmd-glm:                       *)
(*   gglm/glm/base.py, mmdglm/glm/base.py  (class GLM)                     *)
(*   mmdglm/glm/torchglm.py (TorchGLM), mmdglm/glm/mbmmd.py (MBMMDGLM)     *)
(*                                                                         *)
(* Arrays are functions over 0..n-1, as numpy indexes them.  Real numbers  *)
(* are integers in fixed point.  Numpy arrays live in `heap` and are held  *)
(* through views (base array, offset, length), so that a slice aliases the *)
(* array it was cut from; filter objects live in `filters` and are held by *)
(* reference.                                                              *)
(***************************************************************************)
EXTENDS Integers, Sequences, FiniteSets, TLC

\* ------------------------------------------------------------------ bounds
\* Longest time grid t.
MaxT == 3
\* Largest trial count of shape=(n,).
MaxTrials == 2

\* Most spikes in a mask given to sample_conditioned.
MaxSpikes == 1

\* Most calls made on the objects after construction.
MaxCalls == 3

\* The absent filter / absent object (Python None), as a reference.
None == 0
\* r = np.zeros(shape) * np.nan: the not-yet-computed rate (rates are >= 0).
NaN == -1

\* ------------------------------------------------------------------ arrays
Size(a) == Cardinality(DOMAIN a)
Arr0(s) == [i \in 0..(Len(s) - 1) |-> s[i + 1]]
Zeros(n) == [i \in 0..(n - 1) |-> 0]
\* a[lo:hi], clipped as Python clips a slice
Slice0(a, lo, hi) ==
    LET h == IF hi > Size(a) THEN Size(a) ELSE hi
        n == IF h > lo THEN h - lo ELSE 0
    IN  [i \in 0..(n - 1) |-> a[lo + i]]
Concat0(a, b) ==
    [i \in 0..(Size(a) + Size(b) - 1) |->
        IF i < Size(a) THEN a[i] ELSE b[i - Size(a)]]

RECURSIVE SumUpTo(_, _)
\* f[0] + ... + f[hi]
SumUpTo(f, hi) == IF hi < 0 THEN 0 ELSE f[hi] + SumUpTo(f, hi - 1)
SumAll(f) == SumUpTo(f, Size(f) - 1)

\* ------------------------------------------------------------------ state
VARIABLES
    heap,        \* numpy arrays: id -> array
    filters,     \* filter objects: id -> [nbasis, coefs (a view)]
    m,           \* the GLM object
    t,           \* time grid
    stim,        \* stimulus: [given, a]
    shape,       \* number of trial cells
    pc,          \* position in the running call
    j,           \* sample: bin index
    u, r, eta_conv, kappa_conv, mask_spikes,   \* sample: locals / return value
    cond,        \* result of sample_conditioned
    mc,          \* the GLM object that m.copy() returned
    theta,       \* the caller's parameter array (an array id)
    got,         \* the array the last get_params returned (an array id)
    last,        \* the last call made on an object, and how it ended
    ncalls,      \* calls made so far
    changed,     \* sample_conditioned: the bin where this run's input differs from the last run's
    tracked,     \* the torch Parameters of a TorchGLM / MBMMDGLM: b, kappa_coefs, eta_coefs
    args,        \* train: the arguments of the call
    epoch,       \* train: epochs completed, the next value of the loop index
    loss, nll,   \* train: the histories
    metrics_list,  \* train: the local metrics_list
    ret,         \* train: what the call returned, or the fault that ended it
    draws,       \* train: per epoch, the loss terms the data gave and the change the step made
    thetas,      \* train: the tracked parameter vector at the start and after each optim.step()
    fwd          \* MBMMDGLM.train: the last epoch's simulation and MMD estimate

simvars == <<t, stim, shape, j, u, r, eta_conv, kappa_conv, mask_spikes, cond, changed>>
objvars == <<mc, theta, got, last, ncalls>>
trainvars == <<tracked, args, epoch, loss, nll, metrics_list, ret, draws, thetas, fwd>>
vars == <<heap, filters, m, pc, simvars, objvars, trainvars>>

\* ------------------------------------------------------------------ views
View(base, off, len) == [base |-> base, off |-> off, len |-> len]
WholeView(h, id) == View(id, 0, Size(h[id]))
\* the values seen through a view
Deref(h, v) == [i \in 0..(v.len - 1) |-> h[v.base][v.off + i]]

\* ------------------------------------------------------------------ utils
\* get_dt(t): the uniform spacing of the grid
GetDt(tt) == tt[1] - tt[0]
\* shift_array(mask, 1, fill_value=False): row i moves to row i + 1, row 0 is filled
ShiftArray(mk, fill) ==
    [i \in DOMAIN mk |-> IF i = 0 THEN [c \in DOMAIN mk[0] |-> fill] ELSE mk[i - 1]]

\* ------------------------------------------------------------------ filters
\* filter.interpolate(delta): the kernel sum_b coefs[b] * basis_b(delta); basis b is
\* the indicator of lag b, and the kernel is zero outside its support
Interpolate(coefs, delta) ==
    IF delta \in DOMAIN coefs THEN coefs[delta] ELSE 0
\* kappa.convolve_continuous(t, stim): causal convolution, quadrature weight dt
ConvolveContinuous(coefs, tt, st) ==
    [i \in DOMAIN tt |->
        SumAll([k \in 0..i |->
            IF k \in DOMAIN st
            THEN Interpolate(coefs, tt[i] - tt[k]) * st[k] * GetDt(tt) ELSE 0])]
\* eta.convolve_discrete(t, (times, cells), shape): sum over the given spikes of
\* interpolate(t - t_spike), from the spike time on, in the spike's cell
ConvolveDiscrete(coefs, tt, spikes, cells) ==
    [i \in DOMAIN tt |-> [c \in cells |->
        SumAll([k \in DOMAIN tt |->
            IF <<tt[k], c>> \in spikes /\ tt[k] <= tt[i]
            THEN Interpolate(coefs, tt[i] - tt[k]) ELSE 0])]]

\* ------------------------------------------------------------------ GLM
NonLinearities == {"exp", "log_exp"}
\* np.exp in fixed point (unit 1/4), rounded; underflows to 0
ExpFx(x) ==
    IF x <= -3 THEN 0 ELSE IF x = -2 THEN 1 ELSE IF x = -1 THEN 1
    ELSE IF x = 0 THEN 4 ELSE IF x = 1 THEN 11 ELSE IF x = 2 THEN 30 ELSE 80
\* np.log(1 + np.exp(x)) in the same fixed point
LogExpFx(x) ==
    IF x <= -3 THEN 0 ELSE IF x = -2 THEN 1 ELSE IF x = -1 THEN 1
    ELSE IF x = 0 THEN 3 ELSE IF x = 1 THEN 5 ELSE IF x = 2 THEN 9 ELSE 4 * x
\* self.non_linearity(x) (gglm); mmdglm's GLM always applies np.exp
NonLinearity(g, x) ==
    IF g.cls = "gglm" /\ g.non_linearity = "log_exp" THEN LogExpFx(x) ELSE ExpFx(x)

\* the levels a draw of np.random.rand and a probability are quantised to
RandValues == 0..2
\* p_spk = 1 - exp(-r * dt), quantised: 0 iff r * dt = 0, and never 1
PSpk(rr, dt) ==
    IF rr * dt <= 0 THEN 0 ELSE IF rr * dt < 4 THEN 1 ELSE 2

KappaCoefs(g, h, f) == Deref(h, f[g.kappa].coefs)
EtaCoefs(g, h, f) == Deref(h, f[g.eta].coefs)
\* ------------------------------------------------------------------ GLM.sample
Cells == 0..(shape - 1)
Bins == DOMAIN t
NpAny(row) == \E c \in DOMAIN row : row[c]

\* the stimulus drive, computed before the bin loop: the convolution is shifted by
\* one bin, bin 0 is zero-filled, and the row is stacked across the trial cells
KappaConvShiftedBack(g, h, f, tt, st) ==
    LET conv == ConvolveContinuous(KappaCoefs(g, h, f), tt, st.a)
    IN  Concat0(Slice0(conv, 1, Size(conv)), Zeros(1))
KappaConvShifted(g, h, f, tt, st) ==
    LET conv == ConvolveContinuous(KappaCoefs(g, h, f), tt, st.a)
    IN  Concat0(Zeros(1), Slice0(conv, 0, Size(conv) - 1))
UsesStim(g, st) == g.kappa # None /\ st.given
SampleKappaConv(g, h, f, tt, st, cells) ==
    IF UsesStim(g, st)
    THEN LET row == KappaConvShifted(g, h, f, tt, st)
         IN  [i \in DOMAIN tt |-> [c \in cells |-> row[i]]]
    ELSE [i \in DOMAIN tt |-> [c \in cells |-> 0]]

\* eta_conv[j + 1:, mask_spikes[j]] += eta.interpolate(t[j + 1:] - t[j + 1])[:, None]
EtaUpdateFromBinJ(ec, mj, jj, tt, coefs) ==
    [i \in DOMAIN ec |-> [c \in DOMAIN ec[i] |->
        IF i >= jj /\ mj[c]
        THEN ec[i][c] + Interpolate(coefs, tt[i] - tt[jj]) ELSE ec[i][c]]]
EtaUpdate(ec, mj, jj, tt, coefs) ==
    [i \in DOMAIN ec |-> [c \in DOMAIN ec[i] |->
        IF i >= jj + 1 /\ mj[c]
        THEN ec[i][c] + Interpolate(coefs, tt[i] - tt[jj + 1]) ELSE ec[i][c]]]

\* sample, up to the bin loop: the arrays are allocated and the drive is precomputed
SampleEnter ==
    /\ pc = "call"
    /\ r' = [i \in Bins |-> [c \in Cells |-> NaN]]
    /\ eta_conv' = [i \in Bins |-> [c \in Cells |-> 0]]
    /\ mask_spikes' = [i \in Bins |-> [c \in Cells |-> FALSE]]
    /\ kappa_conv' = SampleKappaConv(m, heap, filters, t, stim, Cells)
    /\ u' = [i \in Bins |-> [c \in Cells |-> m.u0 + kappa_conv'[i][c]]]
    /\ j' = 0
    /\ pc' = "loop"
    /\ UNCHANGED <<trainvars, heap, filters, m, t, stim, shape, cond, changed, objvars>>

\* one pass of the body of `while j < len(t)`
SampleBin ==
    /\ pc = "loop"
    /\ j < Size(t)
    /\ \E rd \in [Cells -> RandValues] :
        LET dt == GetDt(t)
            uj == [c \in Cells |-> u[j][c] + eta_conv[j][c]]
            rj == [c \in Cells |-> NonLinearity(m, uj[c])]
            mj == [c \in Cells |-> PSpk(rj[c], dt) > rd[c]]
        IN  /\ u' = [u EXCEPT ![j] = uj]
            /\ r' = [r EXCEPT ![j] = rj]
            /\ mask_spikes' = [mask_spikes EXCEPT ![j] = mj]
            /\ eta_conv' =
                 IF m.eta # None /\ NpAny(mj) /\ j < Size(t) - 1
                 THEN EtaUpdate(eta_conv, mj, j, t, EtaCoefs(m, heap, filters))
                 ELSE eta_conv
    /\ j' = j + 1
    /\ UNCHANGED <<trainvars, heap, filters, m, t, stim, shape, pc, kappa_conv, cond, changed, objvars>>

\* the loop ends and sample returns kappa_conv, eta_conv, u, r, mask_spikes
SampleReturn ==
    /\ pc = "loop"
    /\ ~(j < Size(t))
    /\ pc' = "done"
    /\ UNCHANGED <<trainvars, heap, filters, m, t, stim, shape, j, u, r, eta_conv, kappa_conv,
                   mask_spikes, cond, changed, objvars>>

\* ------------------------------------------------------------------ GLM.sample_conditioned
\* arg_spikes = np.where(shift_array(mask_spikes, 1, fill_value=False))
ArgSpikesUnshifted(mk) ==
    {<<i, c>> \in (DOMAIN mk) \X (DOMAIN mk[0]) : mk[i][c]}
ArgSpikes(mk) ==
    {<<i, c>> \in (DOMAIN mk) \X (DOMAIN mk[0]) : ShiftArray(mk, FALSE)[i][c]}
\* t_spikes = (t[arg_spikes[0]],) + arg_spikes[1:]
TSpikes(tt, mk) == {<<tt[a[1]], a[2]>> : a \in ArgSpikes(mk)}

\* assert shape[:stim.ndim] == stim.shape, for the one-dimensional stimulus
StimShapeOk(mk, st) == Size(mk) = Size(st.a)

NoResult == [fault |-> "", kappa_conv |-> <<>>, eta_conv |-> <<>>, u |-> <<>>, r |-> <<>>]

SampleConditionedUnchecked(g, h, f, tt, mk, st) ==
    LET cells == DOMAIN mk[0]
        tsp   == TSpikes(tt, mk)
        kc    == SampleKappaConv(g, h, f, tt, st, cells)
        u0    == [i \in DOMAIN mk |-> [c \in cells |-> kc[i][c] + g.u0]]
        ec    == IF g.eta # None /\ Cardinality(tsp) > 0
                 THEN ConvolveDiscrete(EtaCoefs(g, h, f), tt, tsp, cells)
                 ELSE [i \in DOMAIN mk |-> [c \in cells |-> 0]]
        uu    == IF g.eta # None /\ Cardinality(tsp) > 0
                 THEN [i \in DOMAIN mk |-> [c \in cells |-> u0[i][c] + ec[i][c]]]
                 ELSE u0
    IN  [fault |-> "", kappa_conv |-> kc, eta_conv |-> ec, u |-> uu,
         r |-> [i \in DOMAIN mk |-> [c \in cells |-> NonLinearity(g, uu[i][c])]]]

SampleConditioned(g, h, f, tt, mk, st) ==
    IF UsesStim(g, st) /\ ~StimShapeOk(mk, st)
    THEN [NoResult EXCEPT !.fault = "AssertionError"]
    ELSE SampleConditionedUnchecked(g, h, f, tt, mk, st)

\* sample_conditioned(t, mask_spikes, stim, full=True) on the mask sample returned
ConditionedOnSample ==
    /\ pc = "done"
    /\ cond' = SampleConditioned(m, heap, filters, t, mask_spikes, stim)
    /\ pc' = "cond"
    /\ UNCHANGED <<trainvars, heap, filters, m, t, stim, shape, j, u, r, eta_conv, kappa_conv,
                   mask_spikes, changed, objvars>>
\* ------------------------------------------------------------------ construction
GLMClasses == {"gglm", "mmdglm"}
NoGLM == [cls |-> "NoneType", u0 |-> 0, kappa |-> None, eta |-> None,
          non_linearity |-> "", noise |-> ""]
\* GLM.__init__: gglm looks the non-linearity up in dic_nonlinearities (a KeyError
\* for an unknown key) and stores the noise key as given; mmdglm stores u0, kappa,
\* eta and the noise key, and never reads non_linearity
InitFault(cls, non_linearity) ==
    IF cls = "gglm" /\ non_linearity \notin NonLinearities THEN "KeyError" ELSE ""
NewGLM(cls, u0_, kappa_, eta_, non_linearity, noise) ==
    [cls |-> cls, u0 |-> u0_, kappa |-> kappa_, eta |-> eta_,
     non_linearity |-> IF cls = "gglm" THEN non_linearity ELSE "",
     noise |-> noise]

\* a filter object over a fresh coefficient array; <<>> stands for no filter
NewFilter(h, id) == [nbasis |-> Size(h[id]), coefs |-> WholeView(h, id)]
HeapOf(kc, ec) ==
    (IF kc # <<>> THEN <<Arr0(kc)>> ELSE <<>>) \o (IF ec # <<>> THEN <<Arr0(ec)>> ELSE <<>>)
FiltersOf(kc, ec) == [id \in DOMAIN HeapOf(kc, ec) |-> NewFilter(HeapOf(kc, ec), id)]
KappaIdOf(kc, ec) == IF kc # <<>> THEN 1 ELSE None
EtaIdOf(kc, ec) == IF ec # <<>> THEN Len(HeapOf(kc, ec)) ELSE None

\* ------------------------------------------------------------------ inputs
U0Values == {-1, 0}
KappaChoices == {<<>>, <<1>>}
EtaChoices == {<<>>, <<2, -1>>}
Grid(T) == [i \in 0..(T - 1) |-> i]
NoStim == [given |-> FALSE, a |-> <<>>]
Stim(a) == [given |-> TRUE, a |-> a]
\* no stimulus, or an impulse at bin 0
StimChoices(T) ==
    {NoStim, Stim([i \in 0..(T - 1) |-> IF i = 0 THEN 1 ELSE 0])}
\* the classes and the non-linearity keys they are built with
Builds == {<<"gglm", "exp">>, <<"gglm", "log_exp">>, <<"mmdglm", "exp">>}

NoArrays == <<>>
\* no bin
NoBin == -1
NoCall == [op |-> "", obj |-> "", fault |-> "", arg |-> None,
           non_linearity |-> "", noise |-> ""]
Call(op, obj, fault, arg) == [NoCall EXCEPT !.op = op, !.obj = obj, !.fault = fault, !.arg = arg]
\* the variables of sample and sample_conditioned, before their arrays exist
SimIdle ==
    /\ j = 0
    /\ u = NoArrays /\ r = NoArrays /\ eta_conv = NoArrays /\ kappa_conv = NoArrays
    /\ cond = NoResult
    /\ changed = NoBin
\* the variables of the object-level calls, while no such call is made
ObjIdle ==
    /\ mc = NoGLM /\ theta = None /\ got = None /\ last = NoCall /\ ncalls = 0

\* a GLM that is no torch Module tracks no Parameter
NoView == [base |-> None, off |-> 0, len |-> 0]
NoTracked == [cls |-> "", b |-> 0, kappa_coefs |-> NoView, eta_coefs |-> NoView]
NoArgs == [num_epochs |-> 0, log_likelihood |-> FALSE, metrics |-> FALSE,
           n_metrics |-> 1, l2 |-> FALSE, phi |-> TRUE, biased |-> FALSE,
           n_d |-> 0, n_batch_fr |-> 0, stim_cols |-> 0]
\* no epoch of MBMMDGLM.train has run
NoFrame == [epoch |-> NoBin, view |-> <<>>, theta_g |-> <<>>, tracked |-> <<>>,
            m |-> 0, den_d |-> 0, den_fr |-> 0, den_cross |-> 0,
            idx_d |-> {}, idx_fr |-> {}]
\* the local metrics_list: not yet bound, a list, a dict of key -> list, or None
MetricsList(kind, d) == [kind |-> kind, d |-> d]
Unbound == MetricsList("unbound", <<>>)
NoReturn == [fault |-> "", value |-> <<>>]
\* the variables of train, while no train call is made
TrainIdle ==
    /\ tracked = NoTracked /\ args = NoArgs /\ epoch = 0
    /\ loss = <<>> /\ nll = <<>> /\ metrics_list = Unbound /\ ret = NoReturn
    /\ draws = <<>> /\ thetas = <<>> /\ fwd = NoFrame

\* ------------------------------------------------------------------ simulation
InitSample ==
    \E b \in Builds, u0_ \in U0Values, kc \in KappaChoices, ec \in EtaChoices,
       T \in 2..MaxT, n \in 1..MaxTrials :
      \E st \in StimChoices(T) :
        /\ heap = HeapOf(kc, ec)
        /\ filters = FiltersOf(kc, ec)
        /\ m = NewGLM(b[1], u0_, KappaIdOf(kc, ec), EtaIdOf(kc, ec), b[2], "poisson")
        /\ t = Grid(T)
        /\ stim = st
        /\ shape = n
        /\ pc = "call"
        /\ mask_spikes = NoArrays
        /\ SimIdle
        /\ ObjIdle
        /\ TrainIdle

NextSample == SampleEnter \/ SampleBin \/ SampleReturn \/ ConditionedOnSample

SpecSample == InitSample /\ [][NextSample]_vars
\* ------------------------------------------------------------------ simulation: properties
\* what the spikes of cell c at bins before i contribute to bin i: each spike at bin k
\* contributes interpolate(t[i] - t[k + 1])
SpikeHistory(mk, i, c) ==
    IF m.eta = None THEN 0
    ELSE SumAll([k \in Bins |->
            IF k < i /\ mk[k][c]
            THEN Interpolate(EtaCoefs(m, heap, filters), t[i] - t[k + 1]) ELSE 0])
SpikeBins(mk, c) == {k \in Bins : mk[k][c]}
Returned == pc \in {"done", "cond"}

\* C1: no look-ahead in GLM.sample.  The step that processes bin j leaves u, r and
\* mask_spikes of every earlier bin and eta_conv of every bin up to and including j
\* as they were (a spike at bin j only adds to eta_conv at bins after j), and what it
\* writes at bin j is a function of the precomputed drive at bin j, the spikes at
\* bins before j, and the draw of bin j.
C1_NoLookAhead ==
    [][(pc = "loop" /\ j < Size(t)) =>
        /\ \A i \in Bins : i < j =>
              /\ u'[i] = u[i] /\ r'[i] = r[i] /\ mask_spikes'[i] = mask_spikes[i]
        /\ \A i \in Bins : i <= j => eta_conv'[i] = eta_conv[i]
        /\ \A c \in Cells :
              /\ u'[j][c] = m.u0 + kappa_conv[j][c] + SpikeHistory(mask_spikes, j, c)
              /\ r'[j][c] = NonLinearity(m, u'[j][c])
        /\ \E rd \in [Cells -> RandValues] :
              mask_spikes'[j] = [c \in Cells |-> PSpk(r'[j][c], GetDt(t)) > rd[c]]
      ]_vars
\* a spike at bin 0 has been folded into eta_conv and two later bins have been processed
C1_Witness ==
    /\ pc = "loop" /\ j >= 3 /\ m.eta # None
    /\ \E c \in Cells : mask_spikes[0][c] /\ eta_conv[1][c] # 0 /\ ~mask_spikes[1][c]

\* C5: the eta_conv that sample returns is, in every cell, the sum over the cell's
\* spikes of interpolate(t[k+1:] - t[k+1]) placed at bins k+1.. ; for a cell whose only
\* spike is at bin k < T-1 it is zero at bins 0..k and interpolate(t[i] - t[k+1]) after.
C5_EtaConvAccumulation ==
    Returned =>
        /\ \A i \in Bins, c \in Cells : eta_conv[i][c] = SpikeHistory(mask_spikes, i, c)
        /\ m.eta # None =>
             \A c \in Cells, k \in Bins :
                (SpikeBins(mask_spikes, c) = {k} /\ k < Size(t) - 1) =>
                   \A i \in Bins :
                      eta_conv[i][c] =
                         IF i <= k THEN 0
                         ELSE Interpolate(EtaCoefs(m, heap, filters), t[i] - t[k + 1])
\* a single spike, before the last bin, whose kernel shows in the bins after it
C5_Witness ==
    /\ pc = "done" /\ m.eta # None
    /\ \E c \in Cells, k \in Bins :
          /\ SpikeBins(mask_spikes, c) = {k} /\ k + 2 < Size(t)
          /\ eta_conv[k][c] = 0 /\ eta_conv[k + 1][c] = 2 /\ eta_conv[k + 2][c] = -1

\* C3: sample_conditioned, given the mask and the stimulus of a finished sample,
\* returns the eta_conv and the u that sample returned, in every bin and cell.
C3_SameShiftConvention ==
    pc = "cond" =>
        /\ cond.fault = ""
        /\ cond.eta_conv = eta_conv
        /\ cond.u = u
\* with a stimulus drive, and spikes both before and in the last bin
C3_Witness ==
    /\ pc = "cond" /\ UsesStim(m, stim) /\ m.eta # None
    /\ \E c \in Cells : mask_spikes[0][c] /\ mask_spikes[Size(t) - 1][c]
    /\ \E i \in Bins, c \in Cells : cond.kappa_conv[i][c] # 0
    /\ \E i \in Bins, c \in Cells : cond.eta_conv[i][c] # 0
\* ------------------------------------------------------------------ get_params / set_params
NKappa(g, f) == IF g.kappa = None THEN 0 ELSE f[g.kappa].nbasis
NEta(g, f) == IF g.eta = None THEN 0 ELSE f[g.eta].nbasis
\* a[lo:hi] = vals
AssignSlice(a, lo, hi, vals) ==
    [i \in DOMAIN a |-> IF lo <= i /\ i < hi THEN vals[i - lo] ELSE a[i]]
\* the array get_params builds and returns
GetParams(g, h, f) ==
    LET n_kappa == NKappa(g, f)
        n_eta   == NEta(g, f)
        th0 == Zeros(1 + n_kappa + n_eta)
        th1 == [th0 EXCEPT ![0] = g.u0]
        th2 == IF g.kappa # None
               THEN AssignSlice(th1, 1, 1 + n_kappa, KappaCoefs(g, h, f)) ELSE th1
    IN  IF g.eta # None
        THEN AssignSlice(th2, 1 + n_kappa, Size(th2), EtaCoefs(g, h, f)) ELSE th2

\* ------------------------------------------------------------------ conditioned evaluation
StimValues == {0, 1}
\* u0 of the models that are evaluated on a given mask (the default u0=0)
CondU0Values == {0}
SpikeCount(mk) == Cardinality(ArgSpikesUnshifted(mk))
\* stimuli of the mask's length, and one stimulus of every other length
CondStims(T) ==
    {NoStim} \cup {Stim(a) : a \in [0..(T - 1) -> StimValues]}
             \cup {Stim(Zeros(L)) : L \in (2..MaxT) \ {T}}

InitCond ==
    \E b \in Builds, u0_ \in CondU0Values, kc \in KappaChoices, ec \in EtaChoices,
       T \in 2..MaxT, n \in 1..MaxTrials :
      \E st \in CondStims(T), mk \in [0..(T - 1) -> [0..(n - 1) -> BOOLEAN]] :
        /\ SpikeCount(mk) <= MaxSpikes
        /\ heap = HeapOf(kc, ec)
        /\ filters = FiltersOf(kc, ec)
        /\ m = NewGLM(b[1], u0_, KappaIdOf(kc, ec), EtaIdOf(kc, ec), b[2], "poisson")
        /\ t = Grid(T)
        /\ stim = st
        /\ shape = n
        /\ mask_spikes = mk
        /\ pc = "cond_call"
        /\ SimIdle
        /\ ObjIdle
        /\ TrainIdle

\* sample_conditioned(t, mask_spikes, stim, full=True)
SampleConditionedCall ==
    /\ pc = "cond_call"
    /\ cond' = SampleConditioned(m, heap, filters, t, mask_spikes, stim)
    /\ pc' = "cond"
    /\ UNCHANGED <<trainvars, heap, filters, m, t, stim, shape, j, u, r, eta_conv, kappa_conv,
                   mask_spikes, changed, objvars>>

\* a second run on the same model and grid, on a mask that differs in one entry
SampleConditionedOtherMask ==
    /\ pc = "cond"
    /\ cond.fault = ""
    /\ \E i \in Bins, k \in Cells :
        /\ mask_spikes' = [mask_spikes EXCEPT ![i][k] = ~mask_spikes[i][k]]
        /\ changed' = i
    /\ cond' = SampleConditioned(m, heap, filters, t, mask_spikes', stim)
    /\ pc' = "cond2"
    /\ UNCHANGED <<trainvars, heap, filters, m, t, stim, shape, j, u, r, eta_conv, kappa_conv,
                   objvars>>

\* a second run on the same model and grid, on a stimulus that differs in one entry
SampleConditionedOtherStim ==
    /\ pc = "cond"
    /\ cond.fault = ""
    /\ stim.given /\ StimShapeOk(mask_spikes, stim)
    /\ \E i \in Bins, v \in StimValues :
        /\ v # stim.a[i]
        /\ stim' = Stim([stim.a EXCEPT ![i] = v])
        /\ changed' = i
    /\ cond' = SampleConditioned(m, heap, filters, t, mask_spikes, stim')
    /\ pc' = "cond2"
    /\ UNCHANGED <<trainvars, heap, filters, m, t, shape, j, u, r, eta_conv, kappa_conv,
                   mask_spikes, objvars>>

NextCond ==
    SampleConditionedCall \/ SampleConditionedOtherMask \/ SampleConditionedOtherStim

SpecCond == InitCond /\ [][NextCond]_vars
\* ------------------------------------------------------------------ conditioned evaluation: properties
\* the two runs' inputs agree at every bin up to and including jj
SameUpTo(jj) ==
    /\ \A i \in Bins : i <= jj => mask_spikes'[i] = mask_spikes[i]
    /\ stim'.given = stim.given
    /\ DOMAIN stim'.a = DOMAIN stim.a
    /\ \A i \in DOMAIN stim.a : i <= jj => stim'.a[i] = stim.a[i]

\* C2: causality of sample_conditioned.  Two runs on the same model and grid whose
\* masks and stimuli agree at all bins up to and including jj return the same u[jj]
\* and r[jj].
C2_Causality ==
    [][(pc = "cond" /\ pc' = "cond2" /\ cond'.fault = "") =>
        \A jj \in Bins :
            SameUpTo(jj) => /\ cond'.u[jj] = cond.u[jj]
                            /\ cond'.r[jj] = cond.r[jj]
      ]_vars
\* the second run's mask has one more spike, at bin 1, which changes u after bin 1
C2_Witness ==
    /\ pc = "cond2" /\ changed = 1 /\ 2 \in Bins /\ m.eta # None /\ UsesStim(m, stim)
    /\ \E k \in Cells : mask_spikes[0][k] /\ mask_spikes[1][k] /\ cond.eta_conv[2][k] = 1

StimMismatch == stim.given /\ ~StimShapeOk(mask_spikes, stim)

\* C9 (as claimed): for every model, sample_conditioned on a stimulus whose shape does
\* not fit the mask ends in the shape fault, and leaves the parameters as they were.
C9_AlwaysShapeFault ==
    [][(pc = "cond_call" /\ pc' = "cond" /\ StimMismatch) =>
        /\ cond'.fault = "AssertionError"
        /\ GetParams(m, heap, filters)' = GetParams(m, heap, filters)
      ]_vars
\* C9 (amended): sample_conditioned on a stimulus whose shape does not fit the mask ends
\* in the shape fault exactly when the model has a kappa filter; without one the
\* stimulus is not read and the call returns u and r.  Either way the parameters
\* are as they were.
C9_ShapeFaultWithKappa ==
    [][(pc = "cond_call" /\ pc' = "cond" /\ StimMismatch) =>
        /\ cond'.fault = (IF m.kappa # None THEN "AssertionError" ELSE "")
        /\ m.kappa = None => DOMAIN cond'.u = Bins
        /\ GetParams(m, heap, filters)' = GetParams(m, heap, filters)
      ]_vars
\* the call has faulted on a stimulus shorter or longer than the mask
C9_Witness ==
    /\ pc = "cond" /\ StimMismatch /\ m.kappa # None /\ cond.fault = "AssertionError"
\* ------------------------------------------------------------------ construction and likelihood
NonLinearityKeys == NonLinearities \cup {"tanh"}
NoiseModels == {"poisson", "bernoulli"}
NoiseKeys == NoiseModels \cup {"gaussian"}

InitCtor ==
    /\ heap = <<>> /\ filters = <<>> /\ m = NoGLM
    /\ pc = "new"
    /\ t = NoArrays /\ stim = NoStim /\ shape = 0 /\ mask_spikes = NoArrays
    /\ SimIdle
    /\ ObjIdle
    /\ TrainIdle

\* GLM(u0, kappa, eta, non_linearity, noise), on filters the caller has built
Construct ==
    /\ pc = "new"
    /\ \E cls \in GLMClasses, u0_ \in U0Values, kc \in KappaChoices, ec \in EtaChoices,
          nl \in NonLinearityKeys, ns \in NoiseKeys :
        /\ heap' = HeapOf(kc, ec)
        /\ filters' = FiltersOf(kc, ec)
        /\ last' = [Call("__init__", "m", InitFault(cls, nl), None)
                      EXCEPT !.non_linearity = nl, !.noise = ns]
        /\ IF InitFault(cls, nl) # ""
           THEN m' = NoGLM /\ pc' = "failed"
           ELSE /\ m' = NewGLM(cls, u0_, KappaIdOf(kc, ec), EtaIdOf(kc, ec), nl, ns)
                /\ pc' = "ready"
    /\ UNCHANGED <<trainvars, simvars, mc, theta, got, ncalls>>

\* gh_log_likelihood: the branch that assigns log_likelihood, g_log_likelihood and
\* h_log_likelihood; "" when neither does
GhBranch(g) ==
    IF g.noise = "poisson" THEN "poisson"
    ELSE IF g.noise = "bernoulli" THEN "bernoulli" ELSE ""
\* the return statement reads the three names: unbound when no branch assigned them
GhFault(g) == IF GhBranch(g) = "" THEN "UnboundLocalError" ELSE ""

\* m.gh_log_likelihood(dt, X, mask_spikes) (gglm only); the numeric value is not modelled
GhLogLikelihood ==
    /\ pc = "ready"
    /\ m.cls = "gglm"
    /\ ncalls < MaxCalls
    /\ last' = Call("gh_log_likelihood", "m", GhFault(m), None)
    /\ ncalls' = ncalls + 1
    /\ UNCHANGED <<trainvars, heap, filters, m, pc, simvars, mc, theta, got>>

NextCtor == Construct \/ GhLogLikelihood

SpecCtor == InitCtor /\ [][NextCtor]_vars

\* C8 (as claimed): a GLM built with a non_linearity key or a noise key that is not a
\* known key fails in the constructor, so no such object exists, and no later call
\* is where an unknown key is first detected.
C8_ConfigFaultAtConstruction ==
    /\ (last.op = "__init__" /\ (last.non_linearity \notin NonLinearities
                                 \/ last.noise \notin NoiseModels))
          => (last.fault # "" /\ m = NoGLM)
    /\ last.op = "gh_log_likelihood" => last.fault = ""

\* ------------------------------------------------------------------ parameters and copies
Exists(g) == g.cls # "NoneType"
Objs == {"m"} \cup (IF Exists(mc) THEN {"mc"} ELSE {})
Obj(o) == IF o = "m" THEN m ELSE mc
NParams(g, f) == 1 + NKappa(g, f) + NEta(g, f)
ThetaChoices(n) == {[i \in 0..(n - 1) |-> 5 + i], [i \in 0..(n - 1) |-> -2 - i]}
WriteValues == {9}

\* set_params(theta): u0 takes the value theta[0]; the filters' coefs become the
\* slices theta[1:1 + n_kappa] and theta[1 + n_kappa:], which are views of theta
SetParamsU0(g, h, id) == [g EXCEPT !.u0 = h[id][0]]
SetParamsEtaAtOne(g, h, f, id) ==
    LET n_kappa == NKappa(g, f)
        f1 == IF g.kappa # None
              THEN [f EXCEPT ![g.kappa].coefs = View(id, 1, n_kappa)] ELSE f
    IN  IF g.eta # None
        THEN [f1 EXCEPT ![g.eta].coefs = View(id, 1, Size(h[id]) - 1 - n_kappa)]
        ELSE f1
SetParamsFilters(g, h, f, id) ==
    LET n_kappa == NKappa(g, f)
        f1 == IF g.kappa # None
              THEN [f EXCEPT ![g.kappa].coefs = View(id, 1, n_kappa)] ELSE f
    IN  IF g.eta # None
        THEN [f1 EXCEPT ![g.eta].coefs = View(id, 1 + n_kappa, Size(h[id]) - 1 - n_kappa)]
        ELSE f1

InitParams ==
    \E cls \in GLMClasses, u0_ \in U0Values, kc \in KappaChoices, ec \in EtaChoices :
        /\ heap = HeapOf(kc, ec)
        /\ filters = FiltersOf(kc, ec)
        /\ m = NewGLM(cls, u0_, KappaIdOf(kc, ec), EtaIdOf(kc, ec), "exp", "poisson")
        /\ pc = "ready"
        /\ t = NoArrays /\ stim = NoStim /\ shape = 0 /\ mask_spikes = NoArrays
        /\ SimIdle
        /\ ObjIdle
        /\ TrainIdle

\* o.set_params(a), a the array with id `id` of the heap h
SetParamsOn(o, h, id) ==
    /\ m' = IF o = "m" THEN SetParamsU0(m, h, id) ELSE m
    /\ mc' = IF o = "mc" THEN SetParamsU0(mc, h, id) ELSE mc
    /\ filters' = SetParamsFilters(Obj(o), h, filters, id)
    /\ last' = Call("set_params", o, "", id)
    /\ ncalls' = ncalls + 1

\* the caller builds a parameter array theta and calls o.set_params(theta)
SetParamsNew ==
    /\ pc = "ready" /\ ncalls < MaxCalls
    /\ \E o \in Objs : \E vals \in ThetaChoices(NParams(Obj(o), filters)) :
        /\ heap' = Append(heap, vals)
        /\ theta' = Len(heap) + 1
        /\ SetParamsOn(o, heap', theta')
    /\ UNCHANGED <<trainvars, pc, simvars, got>>

\* the caller hands the array a get_params returned back: o.set_params(got)
SetParamsGot ==
    /\ pc = "ready" /\ ncalls < MaxCalls
    /\ got # None
    /\ \E o \in Objs :
        /\ Size(heap[got]) = NParams(Obj(o), filters)
        /\ SetParamsOn(o, heap, got)
    /\ UNCHANGED <<trainvars, heap, pc, simvars, theta, got>>

\* got = o.get_params(): a new array
GetParamsCall ==
    /\ pc = "ready" /\ ncalls < MaxCalls
    /\ \E o \in Objs :
        /\ heap' = Append(heap, GetParams(Obj(o), heap, filters))
        /\ got' = Len(heap) + 1
        /\ last' = Call("get_params", o, "", None)
    /\ ncalls' = ncalls + 1
    /\ UNCHANGED <<trainvars, filters, m, pc, simvars, mc, theta>>

\* the caller writes into an array it holds: theta[i] = v or got[i] = v
CallerWrite ==
    /\ pc = "ready" /\ ncalls < MaxCalls
    /\ \E id \in {theta, got} \ {None} : \E i \in DOMAIN heap[id], v \in WriteValues :
        /\ heap' = [heap EXCEPT ![id][i] = v]
        /\ last' = Call("write", "", "", id)
    /\ ncalls' = ncalls + 1
    /\ UNCHANGED <<trainvars, filters, m, pc, simvars, mc, theta, got>>

\* eta.copy(): a new filter object over a copy of the coefficient array
FilterCopyHeap(h, f, id) == Append(h, Deref(h, f[id].coefs))
FilterCopyFilters(h, f, id) ==
    Append(f, [nbasis |-> f[id].nbasis, coefs |-> WholeView(FilterCopyHeap(h, f, id), Len(h) + 1)])

\* mc = m.copy(): self.__class__(u0=self.u0, eta=self.eta.copy())
Copy ==
    /\ pc = "ready" /\ ncalls < MaxCalls
    /\ IF m.eta = None
       THEN /\ last' = Call("copy", "m", "AttributeError", None)
            /\ UNCHANGED <<trainvars, heap, filters, mc>>
       ELSE /\ heap' = FilterCopyHeap(heap, filters, m.eta)
            /\ filters' = FilterCopyFilters(heap, filters, m.eta)
            /\ mc' = NewGLM(m.cls, m.u0, None, Len(filters) + 1, "exp", "poisson")
            /\ last' = Call("copy", "m", "", None)
    /\ ncalls' = ncalls + 1
    /\ UNCHANGED <<trainvars, m, pc, simvars, theta, got>>

NextParams == SetParamsNew \/ SetParamsGot \/ GetParamsCall \/ CallerWrite \/ Copy

SpecParams == InitParams /\ [][NextParams]_vars
\* ------------------------------------------------------------------ parameters and copies: properties
CoefsOrEmpty(g, h, f, id) == IF id = None THEN <<>> ELSE Deref(h, f[id].coefs)
\* u0 and the coefficient values of the filters the object holds
ParamState(g, h, f) ==
    <<g.u0, CoefsOrEmpty(g, h, f, g.kappa), CoefsOrEmpty(g, h, f, g.eta)>>
\* the flat vector [u0, kappa.coefs, eta.coefs]
Layout(g, h, f) ==
    Concat0(Concat0([i \in {0} |-> g.u0], CoefsOrEmpty(g, h, f, g.kappa)),
            CoefsOrEmpty(g, h, f, g.eta))

\* C4: set_params(theta) followed by get_params() on the same object returns the values
\* of theta, in the layout [u0, kappa.coefs, eta.coefs]; and set_params(get_params())
\* leaves u0, kappa.coefs and eta.coefs as they were.
C4_RoundTrip ==
    [][/\ (last.op = "set_params" /\ last'.op = "get_params" /\ last'.obj = last.obj) =>
            /\ heap'[got'] = heap[last.arg]
            /\ heap'[got'] = Layout(Obj(last.obj), heap, filters)
       /\ (last.op = "get_params" /\ last'.op = "set_params" /\ last'.obj = last.obj
             /\ last'.arg = got) =>
            ParamState(Obj(last.obj), heap, filters)' = ParamState(Obj(last.obj), heap, filters)
      ]_vars
\* m, with both filters, has been given theta = [5, 6, 7, 8] and has returned it
C4_Witness ==
    /\ last.op = "get_params" /\ last.obj = "m" /\ ncalls = 2
    /\ m.kappa # None /\ m.eta # None /\ theta # None
    /\ heap[got] = heap[theta] /\ heap[got][0] = 5 /\ Size(heap[got]) = 4

\* C6 (as claimed): m.copy() returns a model with its own copy of every filter m holds,
\* whose get_params() equals m.get_params() right after the copy.
C6_CopyHoldsEveryFilter ==
    last.op = "copy" =>
        /\ last.fault = "" /\ Exists(mc)
        /\ (mc.kappa = None) = (m.kappa = None)
        /\ (mc.eta = None) = (m.eta = None)
        /\ GetParams(mc, heap, filters) = GetParams(m, heap, filters)

\* C7 (as claimed): an in-place write to an array the caller holds (the theta it gave
\* to set_params, or an array get_params returned) leaves get_params() of every
\* object as it was.
C7_ExchangedByCopy ==
    [][(last'.op = "write" /\ ncalls' = ncalls + 1) =>
          \A o \in Objs :
             GetParams(Obj(o), heap, filters)' = GetParams(Obj(o), heap, filters)
      ]_vars

\* ------------------------------------------------------------------ gradient training
\* Most epochs asked of train.
MaxEpochs == 2

Trainers == {"MBMMDGLM", "TorchGLM"}
\* torch.zeros(n) and torch.tensor([u0]) of a Python float are float32 tensors: a
\* value stored in one keeps float32 precision (here: the even values), and
\* .double() widens it without restoring
F32(x) == 2 * (x \div 2)
\* the values of a tracked coefficient Parameter
TrackedCoefs(h, v) == Deref(h, v)
\* TorchGLM.get_params / MBMMDGLM.get_params
TorchGetParams(g, tr, h, f) ==
    LET n_kappa == NKappa(g, f)
        n_eta   == NEta(g, f)
        th0 == Zeros(1 + n_kappa + n_eta)
        th1 == [th0 EXCEPT ![0] = F32(tr.b)]
        th2 == IF g.kappa # None
               THEN AssignSlice(th1, 1, 1 + n_kappa,
                                [i \in 0..(n_kappa - 1) |-> F32(TrackedCoefs(h, tr.kappa_coefs)[i])])
               ELSE th1
    IN  IF g.eta # None
        THEN AssignSlice(th2, 1 + n_kappa, Size(th2),
                         [i \in 0..(n_eta - 1) |-> F32(TrackedCoefs(h, tr.eta_coefs)[i])])
        ELSE th2

\* the tracked parameters as one vector: b, kappa_coefs, eta_coefs
TrackedVector(g, tr, h, f) ==
    Concat0(Concat0([i \in 0..0 |-> tr.b],
                    IF g.kappa # None THEN TrackedCoefs(h, tr.kappa_coefs) ELSE Zeros(0)),
            IF g.eta # None THEN TrackedCoefs(h, tr.eta_coefs) ELSE Zeros(0))
\* what one epoch takes from outside the loop: the value of the first loss term
\* (the MMD, or the l2 penalty), the value of the likelihood term, the step's change
Draw(term, _nll, d) == [term |-> term, nll |-> _nll, d |-> d]

\* TorchGLM.__init__ / MBMMDGLM.__init__: b is torch.tensor([u0]).double(), a float32
\* tensor of the number u0, widened; kappa_coefs and eta_coefs are
\* torch.from_numpy(filter.coefs), which share the filter's array
NewTracked(cls, g, f) ==
    [cls |-> cls, b |-> F32(g.u0),
     kappa_coefs |-> IF g.kappa # None THEN f[g.kappa].coefs ELSE NoView,
     eta_coefs |-> IF g.eta # None THEN f[g.eta].coefs ELSE NoView]

\* the values a loss term takes, and the changes an optimizer step makes: they
\* depend on the data, the kernel and the optimizer the caller supplies
LossValues == {0, 1}
StepValues == {-1, 1}
\* optim.step(): the Parameters are updated in place
InView(v, id, i) == v.base = id /\ v.off <= i /\ i < v.off + v.len
StepHeap(h, tr, d) ==
    [id \in DOMAIN h |-> [i \in DOMAIN h[id] |->
        IF InView(tr.kappa_coefs, id, i) \/ InView(tr.eta_coefs, id, i)
        THEN h[id][i] + d ELSE h[id][i]]]
StepTracked(tr, d) == [tr EXCEPT !.b = tr.b + d]

\* the keys of the dict the caller's metrics callback returns
MetricKeys == {"user"}
\* if epoch == 0: metrics_list = {key: [val]} else: metrics_list[key].append(val);
\* an entry is recorded as the epoch it was computed in
MetricsUpdate(ml, keys, ep) ==
    IF ep = 0
    THEN MetricsList("dict", [k \in keys |-> <<ep>>])
    ELSE MetricsList(ml.kind, [k \in DOMAIN ml.d |->
                                 IF k \in keys THEN Append(ml.d[k], ep) ELSE ml.d[k]])
MetricsDueEveryEpoch(ep, n_metrics) == ep >= 0
MetricsDue(ep, n_metrics) == (ep % n_metrics) = 0

InitTrain ==
    \E cls \in Trainers, u0_ \in U0Values, kc \in KappaChoices, ec \in EtaChoices,
       n \in 0..MaxEpochs, ll \in BOOLEAN, mt \in BOOLEAN, nm \in 1..2, l2_ \in BOOLEAN :
        /\ (cls = "TorchGLM" => ~ll) /\ (cls = "MBMMDGLM" => ~l2_)
        /\ heap = HeapOf(kc, ec)
        /\ filters = FiltersOf(kc, ec)
        /\ m = NewGLM("mmdglm", u0_, KappaIdOf(kc, ec), EtaIdOf(kc, ec), "exp", "poisson")
        /\ tracked = NewTracked(cls, m, filters)
        /\ args = [NoArgs EXCEPT !.num_epochs = n, !.log_likelihood = ll, !.metrics = mt,
                                 !.n_metrics = nm, !.l2 = l2_,
                                 !.n_d = 2, !.n_batch_fr = 2]
        /\ pc = "train_call"
        /\ epoch = 0 /\ loss = <<>> /\ nll = <<>> /\ metrics_list = Unbound /\ ret = NoReturn
        /\ draws = <<>> /\ thetas = <<>> /\ fwd = NoFrame
        /\ t = NoArrays /\ stim = NoStim /\ shape = 0 /\ mask_spikes = NoArrays
        /\ SimIdle
        /\ ObjIdle

\* train, up to the loop: MBMMDGLM binds loss, nll = [], []; TorchGLM binds
\* loss, metrics_list = [], []
TrainEnter ==
    /\ pc = "train_call"
    /\ pc' = "epochs"
    /\ epoch' = 0 /\ loss' = <<>> /\ nll' = <<>>
    /\ metrics_list' = IF tracked.cls = "TorchGLM" THEN MetricsList("list", <<>>) ELSE Unbound
    /\ draws' = <<>>
    /\ thetas' = <<TrackedVector(m, tracked, heap, filters)>>
    /\ UNCHANGED <<heap, filters, m, simvars, objvars, tracked, args, ret, fwd>>

\* after optim.step(): theta = self.get_params(); self.set_params(theta...numpy())
Resync(h1, tr1) ==
    LET id == Len(h1) + 1
        h2 == Append(h1, TorchGetParams(m, tr1, h1, filters))
    IN  /\ heap' = h2
        /\ m' = SetParamsU0(m, h2, id)
        /\ filters' = SetParamsFilters(m, h2, filters, id)
        /\ tracked' = tr1

\* Largest number of trials: observed (n_d), simulated (n_batch_fr), stimulus columns.
MaxBatch == 3

\* forward: with a stimulus the batch is sample(t, stim=stim), whose trial axes are
\* the stimulus's; without one it is sample(t, shape=(n_batch_fr,))
BatchSize(a) == IF a.stim_cols # 0 THEN a.stim_cols ELSE a.n_batch_fr
\* np.triu_indices(n, k=1)
TriuIndices(n) == {p \in (0..(n - 1)) \X (0..(n - 1)) : p[1] < p[2]}
\* gramian_fr_fr[idx_fr] on the gramian of a batch of mfr trials
IndexFault(idx, mfr) == \E p \in idx : p[2] >= mfr
\* the kernel form indexes the gramians with idx_fr in the estimate when not biased,
\* and in the 'mmd' metric whenever the metrics are due
KernelIndexFault(a, ep) ==
    /\ ~a.phi
    /\ IndexFault(TriuIndices(a.n_batch_fr), BatchSize(a))
    /\ (~a.biased) \/ MetricsDue(ep, a.n_metrics)
\* the divisors of the two within-group terms and of the cross term, and the index
\* sets of the kernel form, as the epoch computes them
Estimate(a) ==
    LET n_d == a.n_d
        n_batch_fr == a.n_batch_fr
        mfr == BatchSize(a)
    IN  IF a.phi /\ ~a.biased
        THEN [den_d |-> n_d * (n_d - 1), den_fr |-> n_batch_fr * (n_batch_fr - 1),
              den_cross |-> n_d * n_batch_fr, idx_d |-> {}, idx_fr |-> {}]
        ELSE IF ~a.phi /\ ~a.biased
        THEN [den_d |-> Cardinality(TriuIndices(n_d)),
              den_fr |-> Cardinality(TriuIndices(n_batch_fr)),
              den_cross |-> n_d * mfr,
              idx_d |-> TriuIndices(n_d), idx_fr |-> TriuIndices(n_batch_fr)]
        ELSE [den_d |-> n_d * n_d, den_fr |-> mfr * mfr, den_cross |-> n_d * mfr,
              idx_d |-> {}, idx_fr |-> {}]
\* the epoch's simulation: the parameters sample reads, the vector get_params gives
\* the differentiable rates, the Parameters themselves, and the estimate
Frame(ep) ==
    LET e == Estimate(args)
    IN  [epoch |-> ep,
         view |-> GetParams(m, heap, filters),
         theta_g |-> TorchGetParams(m, tracked, heap, filters),
         tracked |-> TrackedVector(m, tracked, heap, filters),
         m |-> BatchSize(args),
         den_d |-> e.den_d, den_fr |-> e.den_fr, den_cross |-> e.den_cross,
         idx_d |-> e.idx_d, idx_fr |-> e.idx_fr]

\* one pass of the loop body of MBMMDGLM.train
MMDEpoch ==
    /\ pc = "epochs" /\ tracked.cls = "MBMMDGLM"
    /\ epoch < args.num_epochs
    /\ fwd' = Frame(epoch)
    /\ IF KernelIndexFault(args, epoch)
       THEN /\ pc' = "train_fault"
            /\ ret' = [fault |-> "IndexError", value |-> <<>>]
            /\ UNCHANGED <<heap, filters, m, tracked, epoch, loss, nll, metrics_list,
                           draws, thetas>>
       ELSE /\ \E mmd \in LossValues, _nll \in LossValues, d \in StepValues :
                LET _loss == IF args.log_likelihood THEN mmd + _nll ELSE mmd
                    keys == (IF args.metrics THEN MetricKeys ELSE {}) \cup {"mmd"}
                IN  /\ (~args.log_likelihood) => _nll = 0
                    /\ nll' = IF args.log_likelihood THEN Append(nll, _nll) ELSE nll
                    /\ metrics_list' = IF MetricsDue(epoch, args.n_metrics)
                                       THEN MetricsUpdate(metrics_list, keys, epoch)
                                       ELSE metrics_list
                    /\ Resync(StepHeap(heap, tracked, d), StepTracked(tracked, d))
                    /\ loss' = Append(loss, _loss)
                    /\ draws' = Append(draws, Draw(mmd, _nll, d))
            /\ thetas' = Append(thetas, TrackedVector(m, tracked, heap, filters)')
            /\ epoch' = epoch + 1
            /\ UNCHANGED <<pc, ret>>
    /\ UNCHANGED <<simvars, objvars, args>>

\* one pass of the loop body of TorchGLM.train; with l2 the penalty reads
\* self.eta_coefs, an attribute a model without eta does not have
TorchEpoch ==
    /\ pc = "epochs" /\ tracked.cls = "TorchGLM"
    /\ epoch < args.num_epochs
    /\ IF args.l2 /\ m.eta = None
       THEN /\ pc' = "train_fault"
            /\ ret' = [fault |-> "AttributeError", value |-> <<>>]
            /\ UNCHANGED <<heap, filters, m, tracked, epoch, loss, nll, metrics_list,
                           draws, thetas>>
       ELSE /\ \E _nll \in LossValues, pen \in LossValues, d \in StepValues :
                LET _loss == IF args.l2 THEN _nll + pen ELSE _nll
                    keys == (IF args.metrics THEN MetricKeys ELSE {})
                               \cup (IF args.l2 THEN {"nll"} ELSE {})
                IN  /\ (~args.l2) => pen = 0
                    /\ metrics_list' = IF MetricsDue(epoch, args.n_metrics)
                                       THEN MetricsUpdate(metrics_list, keys, epoch)
                                       ELSE metrics_list
                    /\ Resync(StepHeap(heap, tracked, d), StepTracked(tracked, d))
                    /\ loss' = Append(loss, _loss)
                    /\ draws' = Append(draws, Draw(pen, _nll, d))
            /\ thetas' = Append(thetas, TrackedVector(m, tracked, heap, filters)')
            /\ epoch' = epoch + 1
            /\ UNCHANGED <<pc, nll, ret>>
    /\ UNCHANGED <<simvars, objvars, args, fwd>>

\* MBMMDGLM.train after the loop: if metrics is None: metrics_list = None;
\* return loss, nll, metrics_list (a name the loop may never have bound)
MMDReturn ==
    /\ pc = "epochs" /\ tracked.cls = "MBMMDGLM"
    /\ epoch = args.num_epochs
    /\ LET ml == IF ~args.metrics THEN MetricsList("None", <<>>) ELSE metrics_list
       IN  /\ metrics_list' = ml
           /\ IF ml.kind = "unbound"
              THEN /\ pc' = "train_fault"
                   /\ ret' = [fault |-> "UnboundLocalError", value |-> <<>>]
              ELSE /\ pc' = "train_done"
                   /\ ret' = [fault |-> "", value |-> <<loss, nll, ml>>]
    /\ UNCHANGED <<heap, filters, m, simvars, objvars, tracked, args, epoch, loss, nll,
                   draws, thetas, fwd>>

\* TorchGLM.train after the loop: return loss, metrics_list
TorchReturn ==
    /\ pc = "epochs" /\ tracked.cls = "TorchGLM"
    /\ epoch = args.num_epochs
    /\ pc' = "train_done"
    /\ ret' = [fault |-> "", value |-> <<loss, metrics_list>>]
    /\ UNCHANGED <<heap, filters, m, simvars, objvars, tracked, args, epoch, loss, nll,
                   metrics_list, draws, thetas, fwd>>

NextTrain == TrainEnter \/ MMDEpoch \/ TorchEpoch \/ MMDReturn \/ TorchReturn

SpecTrain == InitTrain /\ [][NextTrain]_vars

\* C10 (as claimed): for every num_epochs, MBMMDGLM.train and TorchGLM.train end
\* without a fault after exactly num_epochs epochs and return a triple
\* (loss history, nll history, metrics history): the loss history has one entry per
\* epoch, the nll history is empty when no likelihood term is asked for, and the
\* metrics history is None when no metrics callback is given.
C10_ReturnsTriple ==
    /\ pc # "train_fault"
    /\ pc = "train_done" =>
        /\ epoch = args.num_epochs
        /\ Len(ret.value) = 3
        /\ Len(ret.value[1]) = args.num_epochs
        /\ (~args.log_likelihood) => ret.value[2] = <<>>
        /\ (~args.metrics) => ret.value[3].kind = "None"

\* ------------------------------------------------------------------ training: metrics
\* the loss of an epoch, from what the epoch took from outside the loop
LossOf(cls, a, dr) ==
    IF cls = "MBMMDGLM"
    THEN dr.term + (IF a.log_likelihood THEN dr.nll ELSE 0)
    ELSE dr.nll + (IF a.l2 THEN dr.term ELSE 0)
\* the epochs below e whose index is a multiple of n, in order
DueEpochs(e, n) == [i \in 1..((e + n - 1) \div n) |-> (i - 1) * n]
InTraining == pc \in {"epochs", "train_done"}

Simulated == tracked.cls = "MBMMDGLM" /\ fwd.epoch # NoBin

\* C12 (as claimed): in every epoch of MBMMDGLM.train, when sample is called the
\* plain-array view (u0, kappa.coefs, eta.coefs) equals the tracked parameters
\* (b, kappa_coefs, eta_coefs); the simulation of epoch k+1 uses exactly the
\* parameters the step of epoch k produced.
C12_ViewEqualsTracked ==
    Simulated =>
        /\ fwd.view = fwd.tracked
        /\ fwd.view = thetas[fwd.epoch + 1]

\* ------------------------------------------------------------------ training: the MMD estimate
\* MBMMDGLM.train on n_d observed trials, in feature form (phi) or kernel form,
\* biased or not, stimulus-free or from a stimulus with one column per observed trial
InitMMD ==
    \E kc \in KappaChoices, n \in 1..MaxEpochs, mt \in BOOLEAN, ph \in BOOLEAN,
       bs \in BOOLEAN, nd \in 2..MaxBatch, nb \in 2..MaxBatch, sc \in BOOLEAN :
        /\ heap = HeapOf(kc, <<>>)
        /\ filters = FiltersOf(kc, <<>>)
        /\ m = NewGLM("mmdglm", 0, KappaIdOf(kc, <<>>), EtaIdOf(kc, <<>>), "exp", "poisson")
        /\ tracked = NewTracked("MBMMDGLM", m, filters)
        /\ args = [NoArgs EXCEPT !.num_epochs = n, !.metrics = mt, !.phi = ph, !.biased = bs,
                                 !.n_d = nd, !.n_batch_fr = nb,
                                 !.stim_cols = IF sc THEN nd ELSE 0]
        /\ pc = "train_call"
        /\ epoch = 0 /\ loss = <<>> /\ nll = <<>> /\ metrics_list = Unbound /\ ret = NoReturn
        /\ draws = <<>> /\ thetas = <<>> /\ fwd = NoFrame
        /\ t = NoArrays /\ stim = NoStim /\ shape = 0 /\ mask_spikes = NoArrays
        /\ SimIdle
        /\ ObjIdle

NextMMD == TrainEnter \/ MMDEpoch \/ MMDReturn

SpecMMD == InitMMD /\ [][NextMMD]_vars

\* the pairs (a, b), a < b, of k trials
UpperPairs(k) == {p \in (0..(k - 1)) \X (0..(k - 1)) : p[1] < p[2]}

\* C13 (as claimed): in every epoch of MBMMDGLM.train with biased=False the feature
\* form divides the within-group terms by n(n-1) and m(m-1) and the cross term by
\* n*m, and the kernel form averages over exactly the upper off-diagonal pairs of
\* each group, n the number of observed trials and m the number of trials in the
\* batch simulated in that epoch, stimulus-free or from a stimulus.
C13_UnbiasedDenominators ==
    (Simulated /\ ~args.biased) =>
        /\ ret.fault = ""
        /\ args.phi =>
              /\ fwd.den_d = args.n_d * (args.n_d - 1)
              /\ fwd.den_fr = fwd.m * (fwd.m - 1)
              /\ fwd.den_cross = args.n_d * fwd.m
        /\ (~args.phi) =>
              /\ fwd.idx_d = UpperPairs(args.n_d)
              /\ fwd.idx_fr = UpperPairs(fwd.m)

====
